---- MODULE Spec2Model ----
(***************************************************************************)
(* Model of src/src/Core/TransactionBuilder.cpp: the UnspentSelector coin  *)
(* selection (select_optimal_outputs, optimize_amounts, rollback/commit),  *)
(* add_mixed_inputs, and the TransactionBuilder (add_input, add_output,    *)
(* sign).  Amounts are mathematical integers kept far below 2^64; the      *)
(* 32-bit output offsets are modelled modulo 2^IndexBits.                  *)
(***************************************************************************)
EXTENDS Integers, Sequences, FiniteSets, TLC

\* ------------------------------------------------------------------ bounds
MaxPool == 3          \* longest enumerated unspent pool
MaxBucket == 3        \* longest bucket of a random-outputs response
MaxInputs == 2        \* add_input calls that append
MaxOutputs == 2       \* add_output calls
MaxOffsets == 3       \* longest offset list converted
ManyCoins == 40       \* coins of amount 1 in the wallet of small coins

\* ------------------------------------------------------------ generic helpers
Max(S) == CHOOSE x \in S : \A y \in S : y <= x
Min(S) == CHOOSE x \in S : \A y \in S : x <= y
Last(s) == s[Len(s)]
Front(s) == SubSeq(s, 1, Len(s) - 1)

RECURSIVE Pow10(_)
Pow10(n) == IF n = 0 THEN 1 ELSE 10 * Pow10(n - 1)

\* the sum of the amounts of a sequence of outputs, by halves
SumAmounts(s) ==
    LET sum[r \in (1..Len(s) + 1) \X (0..Len(s))] ==
            IF r[1] > r[2] THEN 0
            ELSE IF r[1] = r[2] THEN s[r[1]].amount
            ELSE sum[<<r[1], (r[1] + r[2]) \div 2>>] +
                 sum[<<(r[1] + r[2]) \div 2 + 1, r[2]>>]
    IN sum[<<1, Len(s)>>]

\* std::map as a function with an explicit key set
MapErase(m, k) == [x \in (DOMAIN m) \ {k} |-> m[x]]
MapPut(m, k, v) == [x \in (DOMAIN m) \cup {k} |-> IF x = k THEN v ELSE m[x]]
EmptyMap == [x \in {} |-> <<>>]

\* ------------------------------------------------------- program constants
fake_large == Pow10(9)   \* 10^18 in the source; any multiple of 10^(max_digit+1)
                         \* above every used_total gives the same digit (TLC ints are 32 bit)
OPTIMIZATIONS_PER_TX == 50
OPTIMIZATIONS_PER_TX_AGGRESSIVE == 200
MEDIAN_PERCENT == 5
MEDIAN_PERCENT_AGGRESSIVE == 10
STACK_OPTIMIZATION_THRESHOLD == 20
TWO_THRESHOLD == 10

\* ---------------------------------------------------------- crypto (external)
InvalidPoint == 0

\* generate_key_derivation: fails on an invalid point
key_derivation_ok(pub, sec) == pub # InvalidPoint
generate_key_derivation(pub, sec) == <<pub, sec>>
\* crypto::derive_public_key: Hs(D || i) G + spend_public
derive_public_key_ok(spend_pub) == spend_pub # InvalidPoint
crypto_derive_public_key(D, i, spend_pub) == <<D[1], D[2], i, spend_pub>>
\* crypto::derive_secret_key: Hs(D || i) + spend_secret
derive_secret_key(D, i, spend_sec) == <<D[1], D[2], i, spend_sec>>
\* crypto::generate_key_image: eph_secret * Hp(eph_public)
generate_key_image(pub, sec) == pub \o sec

\* ------------------------------------------------------ currency (external)
\* leading digit and decimal position of an amount (the loop of lines 285-290)
RECURSIVE DigitOf(_)
DigitOf(am) == IF am > 9 THEN 1 + DigitOf(am \div 10) ELSE 0
RECURSIVE LeadingOf(_)
LeadingOf(am) == IF am > 9 THEN LeadingOf(am \div 10) ELSE am

\* Currency::is_dust: an amount that is not of the form d * 10^k, d in 1..9
is_dust(amount) == amount = 0 \/ LeadingOf(amount) * Pow10(DigitOf(amount)) # amount

\* Currency::is_transaction_spend_time_unlocked: unlock moments below
\* MaxBlockNumber are heights, the others are timestamps
MaxBlockNumber == 500
is_transaction_spend_time_unlocked(unlock_time, block_height, block_time) ==
    IF unlock_time < MaxBlockNumber THEN unlock_time <= block_height
    ELSE unlock_time <= block_time

\* get_maximum_tx_size: header + per-output bytes + per-input bytes, the
\* latter with one offset and one signature per ring member
get_maximum_tx_size(inputs_count, outputs_count, anonymity) ==
    44 + outputs_count * 43 + inputs_count * (112 + anonymity * 68)

\* ------------------------------------------------------------------ wallet
\* the wallet's keys: one view secret, spend keys per address
ViewSecret == 7
SpendSecretOf(spend_pub) == spend_pub + 100
\* Currency::parse_account_address_string
AddressOf == [A1 |-> [spend_public_key |-> 11, view_public_key |-> 12],
              A2 |-> [spend_public_key |-> 21, view_public_key |-> 22]]
parse_account_address_string_ok(address) == address \in DOMAIN AddressOf
\* spend public keys the wallet holds records for
WalletSpendKeys == {11}

AccountKeysOf(address) ==
    [view_secret_key |-> ViewSecret,
     spend_secret_key |-> SpendSecretOf(AddressOf[address].spend_public_key),
     address |-> AddressOf[address]]

\* TransactionBuilder::generate_key_image_helper
generate_key_image_helper_ok(ack, tx_public_key, real_output_index) ==
    /\ key_derivation_ok(tx_public_key, ack.view_secret_key)
    /\ derive_public_key_ok(ack.address.spend_public_key)
eph_keys_of(ack, tx_public_key, real_output_index) ==
    LET recv_derivation == generate_key_derivation(tx_public_key, ack.view_secret_key)
    IN [public_key |-> crypto_derive_public_key(recv_derivation, real_output_index,
                                                ack.address.spend_public_key),
        secret_key |-> derive_secret_key(recv_derivation, real_output_index,
                                         ack.spend_secret_key)]
generate_key_image_helper(ack, tx_public_key, real_output_index) ==
    LET in_ephemeral == eph_keys_of(ack, tx_public_key, real_output_index)
    IN generate_key_image(in_ephemeral.public_key, in_ephemeral.secret_key)

WrongKeyImage == <<0, 0, 0, 0, 0, 0, 0, 0>>

\* an api::Output of the wallet; dust is the wallet's is_dust(amount)
Output(id, amount, global_index, height, unlock_time, tx_public_key, address, ki_ok) ==
    [id |-> id, amount |-> amount, global_index |-> global_index,
     height |-> height, unlock_time |-> unlock_time, dust |-> is_dust(amount),
     transaction_public_key |-> tx_public_key, index_in_transaction |-> 0,
     public_key |-> 10 + global_index, address |-> address,
     key_image |-> IF ki_ok /\ address \in DOMAIN AddressOf
                   THEN generate_key_image_helper(AccountKeysOf(address), tx_public_key, 0)
                   ELSE WrongKeyImage]

\* ------------------------------------------------ HaveCoins / DustCoins
\* have_coins: digit -> leading digit -> stack; dust_coins: amount -> stack

\* (*have_coins)[digit][am].push_back(un), operator[] creating the entries
PushHave(h, d, a, un) ==
    LET inner == IF d \in DOMAIN h THEN h[d] ELSE EmptyMap
        stack == IF a \in DOMAIN inner THEN inner[a] ELSE <<>>
    IN MapPut(h, d, MapPut(inner, a, Append(stack, un)))

\* (*dust_coins)[un.amount].push_back(un)
PushDust(du, un) ==
    LET stack == IF un.amount \in DOMAIN du THEN du[un.amount] ELSE <<>>
    IN MapPut(du, un.amount, Append(stack, un))

\* faulty variant: the coin stays on its stack
PopHave_kept(h, d, a) == h

\* uns.pop_back(); erase the stack when empty, erase the digit when empty
PopHave(h, d, a) ==
    LET uns == Front(h[d][a])
        inner == IF uns = <<>> THEN MapErase(h[d], a) ELSE MapPut(h[d], a, uns)
    IN IF DOMAIN inner = {} THEN MapErase(h, d) ELSE MapPut(h, d, inner)

\* duit->second.pop_back(); erase the stack when empty
PopDust(du, a) ==
    LET uns == Front(du[a])
    IN IF uns = <<>> THEN MapErase(du, a) ELSE MapPut(du, a, uns)

\* faulty variant: unconfirmed outputs are not skipped
Eligible_unconfirmed(un, block_height, block_time, confirmed_height) ==
    is_transaction_spend_time_unlocked(un.unlock_time, block_height, block_time)

\* the skip conditions of create_have_coins (lines 280-283)
Eligible(un, block_height, block_time, confirmed_height) ==
    /\ ~(un.height >= confirmed_height)
    /\ is_transaction_spend_time_unlocked(un.unlock_time, block_height, block_time)

\* the outputs create_have_coins pushes, in its order: last element of the pool first
EligibleReversed(unspents, i, block_height, block_time, confirmed_height) ==
    LET n == Len(unspents) - i + 1
        reversed == [k \in 1..n |-> unspents[Len(unspents) + 1 - k]]
    IN SelectSeq(reversed,
                 LAMBDA un : Eligible(un, block_height, block_time, confirmed_height))

\* UnspentSelector::create_have_coins over unspents[i..], last element first
create_have_coins(unspents, i, block_height, block_time, confirmed_height) ==
    LET pushed == EligibleReversed(unspents, i, block_height, block_time,
                                   confirmed_height)
        coins == SelectSeq(pushed, LAMBDA un : ~is_dust(un.amount))
        dusts == SelectSeq(pushed, LAMBDA un : is_dust(un.amount))
        digits == {DigitOf(coins[k].amount) : k \in 1..Len(coins)}
        leadings(d) == {LeadingOf(coins[k].amount) :
                            k \in {x \in 1..Len(coins) : DigitOf(coins[x].amount) = d}}
    IN [have |-> [d \in digits |-> [a \in leadings(d) |->
                     SelectSeq(coins, LAMBDA un : /\ DigitOf(un.amount) = d
                                                  /\ LeadingOf(un.amount) = a)]],
        dust |-> [a \in {dusts[k].amount : k \in 1..Len(dusts)} |->
                     SelectSeq(dusts, LAMBDA un : un.amount = a)],
        max_digit |-> IF digits = {} THEN 0 ELSE Max(digits)]


\* the stacks after pushing the coins of a sequence, in order, on existing stacks
PushAllHave(have, coins) ==
    LET digits == DOMAIN have \cup {DigitOf(coins[k].amount) : k \in 1..Len(coins)}
        at(d, a) == SelectSeq(coins, LAMBDA un : /\ DigitOf(un.amount) = d
                                                  /\ LeadingOf(un.amount) = a)
        old(d, a) == IF d \in DOMAIN have /\ a \in DOMAIN have[d] THEN have[d][a] ELSE <<>>
        leadings(d) ==
            (IF d \in DOMAIN have THEN DOMAIN have[d] ELSE {}) \cup
            {LeadingOf(coins[k].amount) :
                k \in {x \in 1..Len(coins) : DigitOf(coins[x].amount) = d}}
    IN [d \in digits |-> [a \in leadings(d) |-> old(d, a) \o at(d, a)]]

PushAllDust(dust, coins) ==
    LET old(a) == IF a \in DOMAIN dust THEN dust[a] ELSE <<>>
    IN [a \in DOMAIN dust \cup {coins[k].amount : k \in 1..Len(coins)} |->
           old(a) \o SelectSeq(coins, LAMBDA un : un.amount = a)]

\* faulty variant: dust coins are not given back
unoptimize_coins_nodust(opt, i, have, dust) ==
    LET back == SubSeq(opt, i, Len(opt))
    IN [have |-> PushAllHave(have, SelectSeq(back, LAMBDA un : ~un.dust)),
        dust |-> dust]

\* UnspentSelector::unoptimize_amounts: the coins of opt[i..] go back, in order
unoptimize_coins(opt, i, have, dust) ==
    LET back == SubSeq(opt, i, Len(opt))
    IN [have |-> PushAllHave(have, SelectSeq(back, LAMBDA un : ~un.dust)),
        dust |-> PushAllDust(dust, SelectSeq(back, LAMBDA un : un.dust))]

\* keys of a std::map in iteration order
RECURSIVE SortedKeys(_)
SortedKeys(S) == IF S = {} THEN <<>> ELSE <<Min(S)>> \o SortedKeys(S \ {Min(S)})

\* the two nested loops of optimize_amounts (lines 336-347) over one digit's stacks
RECURSIVE PairScan(_, _, _, _, _, _)
PairScan(stacks, am, keys, i, j, best) ==
    IF i > Len(keys) THEN best
    ELSE IF j > Len(keys) THEN PairScan(stacks, am, keys, i + 1, 1, best)
    ELSE LET a == keys[i]
             b == keys[j]
         IN IF /\ (a + b + am) % 10 = 0
               /\ (Len(stacks[a]) >= TWO_THRESHOLD \/ Len(stacks[b]) >= TWO_THRESHOLD)
               /\ Len(stacks[a]) + Len(stacks[b]) > best.weight
            THEN PairScan(stacks, am, keys, i, j + 1,
                     [weight |-> Len(stacks[a]) + Len(stacks[b]), first |-> a, second |-> b])
            ELSE PairScan(stacks, am, keys, i, j + 1, best)

\* faulty variant: the first pair found is kept, whatever its combined height
best_two_first_found(stacks, am) ==
    LET Q == {q \in (DOMAIN stacks) \X (DOMAIN stacks) :
                 /\ (q[1] + q[2] + am) % 10 = 0
                 /\ (Len(stacks[q[1]]) >= TWO_THRESHOLD \/ Len(stacks[q[2]]) >= TWO_THRESHOLD)}
        p == CHOOSE q \in Q : \A r \in Q : q[1] < r[1] \/ (q[1] = r[1] /\ q[2] <= r[2])
    IN IF Q = {} THEN [weight |-> 0, first |-> 0, second |-> 0]
       ELSE [weight |-> Len(stacks[p[1]]) + Len(stacks[p[2]]),
             first |-> p[1], second |-> p[2]]

best_two(stacks, am) ==
    PairScan(stacks, am, SortedKeys(DOMAIN stacks), 1, 1,
             [weight |-> 0, first |-> 0, second |-> 0])

\* the loop of lines 369-376: exact leading digit, else the tallest larger one
RECURSIVE SingleScan(_, _, _, _, _, _)
SingleScan(stacks, am, keys, i, single, weight) ==
    IF i > Len(keys) THEN single
    ELSE LET a == keys[i]
         IN IF (a + am) % 10 = 0 THEN a
            ELSE IF a > 10 - am /\ Len(stacks[a]) > weight
                 THEN SingleScan(stacks, am, keys, i + 1, a, Len(stacks[a]))
                 ELSE SingleScan(stacks, am, keys, i + 1, single, weight)

best_single(stacks, am) == SingleScan(stacks, am, SortedKeys(DOMAIN stacks), 1, 0, 0)

\* am of line 332 for one digit
digit_need(total_amount, used_total, digit_amount) ==
    10 - (((fake_large + total_amount + digit_amount - 1 - used_total) \div digit_amount) % 10)

\* the stack search of lines 435-442: the first stack taller than every earlier one
RECURSIVE StackScan(_, _, _, _)
StackScan(have, cells, i, best) ==
    IF i > Len(cells) THEN best
    ELSE LET c == cells[i]
         IN IF Len(have[c[1]][c[2]]) > best.weight
            THEN StackScan(have, cells, i + 1,
                           [weight |-> Len(have[c[1]][c[2]]), digit |-> c[1], leading |-> c[2]])
            ELSE StackScan(have, cells, i + 1, best)

RECURSIVE HaveCells(_, _)
HaveCells(have, digits) ==
    IF digits = <<>> THEN <<>>
    ELSE LET d == Head(digits)
             ks == SortedKeys(DOMAIN have[d])
         IN [k \in 1..Len(ks) |-> <<d, ks[k]>>] \o HaveCells(have, Tail(digits))

best_stack(have) ==
    StackScan(have, HaveCells(have, SortedKeys(DOMAIN have)), 1,
              [weight |-> STACK_OPTIMIZATION_THRESHOLD, digit |-> 0, leading |-> 0])

\* ten pops from one stack (lines 445-453); the stack is never erased here
PopN(stack, n) == [k \in 1..n |-> stack[Len(stack) + 1 - k]]

\* the search of lines 461-481: lowest digit, then lowest leading digit, that covers
RECURSIVE LargeScan(_, _, _, _)
LargeScan(have, cells, i, shortfall) ==
    IF i > Len(cells) THEN <<>>
    ELSE LET c == cells[i]
         IN IF have[c[1]][c[2]] # <<>> /\ c[2] * Pow10(c[1]) >= shortfall
            THEN c
            ELSE LargeScan(have, cells, i + 1, shortfall)

\* digits 0..max_digit that have stacks, in loop order
large_coin(have, max_d, shortfall) ==
    LargeScan(have, HaveCells(have, SortedKeys({d \in DOMAIN have : d <= max_d})), 1,
              shortfall)


\* ------------------------------------------------------ TransactionBuilder
\* width of an output index: uint32_t in the source, IndexBits bits here
IndexBits == 8
RECURSIVE Pow2(_)
Pow2(n) == IF n = 0 THEN 1 ELSE 2 * Pow2(n - 1)
IndexModulus == Pow2(IndexBits)

\* faulty variant: every offset is taken from the first index
absolute_output_offsets_from_first(off) ==
    [i \in 1..Len(off) |->
        IF i = 1 THEN off[1] ELSE (off[i] - off[1]) % IndexModulus]

\* TransactionBuilder::absolute_output_offsets_to_relative
absolute_output_offsets_to_relative(off) ==
    [i \in 1..Len(off) |->
        IF i = 1 THEN off[1] ELSE (off[i] - off[i - 1]) % IndexModulus]

\* relative_output_offsets_to_absolute: the running sum
RECURSIVE relative_output_offsets_to_absolute(_)
relative_output_offsets_to_absolute(off) ==
    IF Len(off) <= 1 THEN off
    ELSE LET front == relative_output_offsets_to_absolute(Front(off))
         IN Append(front, (Last(front) + Last(off)) % IndexModulus)

\* APIOutputLessGlobalIndex
APIOutputLessGlobalIndex(a, b) == a.global_index < b.global_index

\* std::sort of line 90, as an insertion sort
RECURSIVE SortByGlobalIndex(_)
SortByGlobalIndex(outs) ==
    IF outs = <<>> THEN <<>>
    ELSE LET sorted == SortByGlobalIndex(Front(outs))
             x == Last(outs)
             before == {k \in 1..Len(sorted) : ~APIOutputLessGlobalIndex(x, sorted[k])}
             n == IF before = {} THEN 0 ELSE Max(before)
         IN SubSeq(sorted, 1, n) \o <<x>> \o SubSeq(sorted, n + 1, Len(sorted))

\* std::lower_bound of lines 91-93: the first member not less than the real output
lower_bound(outs, real_output) ==
    Cardinality({k \in 1..Len(outs) : APIOutputLessGlobalIndex(outs[k], real_output)})

\* faulty variant: the real output is appended after the sorted mix outputs
ring_of_real_last(real_output, mix_outputs) ==
    SortByGlobalIndex(mix_outputs) \o <<real_output>>

\* the ring of lines 89-94: sorted mix outputs with the real one inserted
ring_of(real_output, mix_outputs) ==
    LET sorted == SortByGlobalIndex(mix_outputs)
        at == lower_bound(sorted, real_output)
    IN SubSeq(sorted, 1, at) \o <<real_output>> \o SubSeq(sorted, at + 1, Len(sorted))

\* faulty variant: the derived key image is not compared with the recorded one
key_image_error_unchecked(sender_keys, real_output) ==
    IF ~generate_key_image_helper_ok(sender_keys, real_output.transaction_public_key,
                                     real_output.index_in_transaction)
    THEN "generating keyimage failed"
    ELSE ""

\* lines 96-100: the derived key image must be the recorded one
key_image_error(sender_keys, real_output) ==
    IF ~generate_key_image_helper_ok(sender_keys, real_output.transaction_public_key,
                                     real_output.index_in_transaction)
    THEN "generating keyimage failed"
    ELSE IF generate_key_image_helper(sender_keys, real_output.transaction_public_key,
                                      real_output.index_in_transaction)
                # real_output.key_image
    THEN "generated keyimage does not match input"
    ELSE ""

\* faulty variant: the amounts of the ring are not compared
amount_error_unchecked(real_output, outputs) == ""

\* lines 103-107: every ring member has the real output's amount
amount_error(real_output, outputs) ==
    IF \E k \in 1..Len(outputs) : outputs[k].amount # real_output.amount
    THEN "Mixin outputs with different amounts is not allowed"
    ELSE ""

\* TransactionBuilder::add_input on a builder [descs, inputs_amount, error]
add_input(b, sender_keys, real_output, mix_outputs) ==
    LET outputs == ring_of(real_output, mix_outputs)
        ki_err == key_image_error(sender_keys, real_output)
        am_err == amount_error(real_output, outputs)
        err == IF ki_err # "" THEN ki_err ELSE am_err
        desc == [input |-> [amount |-> real_output.amount,
                            key_image |->
                                generate_key_image_helper(sender_keys,
                                    real_output.transaction_public_key,
                                    real_output.index_in_transaction),
                            output_indexes |->
                                absolute_output_offsets_to_relative(
                                    [k \in 1..Len(outputs) |-> outputs[k].global_index])],
                 outputs |-> outputs,
                 real_output_index |-> lower_bound(SortByGlobalIndex(mix_outputs),
                                                   real_output),
                 eph_keys |-> eph_keys_of(sender_keys, real_output.transaction_public_key,
                                          real_output.index_in_transaction)]
    IN [descs |-> IF err = "" THEN Append(b.descs, desc) ELSE b.descs,
        inputs_amount |-> b.inputs_amount + real_output.amount,
        error |-> err]

\* faulty variant: a candidate with the real output's global index is kept
RECURSIVE collect_mix_noskip(_, _, _, _)
collect_mix_noskip(bucket, mix_outputs, uu, anonymity) ==
    IF ~(Len(mix_outputs) < anonymity)
    THEN [bucket |-> bucket, mix |-> mix_outputs, error |-> ""]
    ELSE IF bucket = <<>>
    THEN [bucket |-> bucket, mix |-> mix_outputs, error |-> "Not enough anonymity for amount"]
    ELSE collect_mix_noskip(Front(bucket), Append(mix_outputs, Last(bucket)), uu, anonymity)

\* the while loop of lines 193-201 for one unspent: pops from the bucket's tail
RECURSIVE collect_mix(_, _, _, _)
collect_mix(bucket, mix_outputs, uu, anonymity) ==
    IF ~(Len(mix_outputs) < anonymity)
    THEN [bucket |-> bucket, mix |-> mix_outputs, error |-> ""]
    ELSE IF bucket = <<>>
    THEN [bucket |-> bucket, mix |-> mix_outputs, error |-> "Not enough anonymity for amount"]
    ELSE IF Last(bucket).global_index # uu.global_index
    THEN collect_mix(Front(bucket), Append(mix_outputs, Last(bucket)), uu, anonymity)
    ELSE collect_mix(Front(bucket), mix_outputs, uu, anonymity)

\* lines 202-209: the sender keys of the unspent's address
sender_keys_error(uu) ==
    IF ~parse_account_address_string_ok(uu.address) THEN "Could not parse address"
    ELSE IF AddressOf[uu.address].spend_public_key \notin WalletSpendKeys
    THEN "No keys in wallet for address"
    ELSE ""

\* ra_response.outputs[amount], operator[] creating the bucket
bucket_of(response, amount) ==
    IF amount \in DOMAIN response THEN response[amount] ELSE <<>>

\* UnspentSelector::add_mixed_inputs over used[i..]; st = [response, builder]
RECURSIVE add_mixed_inputs(_, _, _, _)
add_mixed_inputs(used, i, st, anonymity) ==
    IF i > Len(used) THEN st
    ELSE LET uu == used[i]
             got == collect_mix(bucket_of(st.response, uu.amount), <<>>, uu, anonymity)
             response == MapPut(st.response, uu.amount, got.bucket)
             keys_err == sender_keys_error(uu)
         IN IF got.error # ""
            THEN [response |-> response,
                  builder |-> [st.builder EXCEPT !.error = got.error]]
            ELSE IF keys_err # ""
            THEN [response |-> response,
                  builder |-> [st.builder EXCEPT !.error = keys_err]]
            ELSE LET b == add_input(st.builder, AccountKeysOf(uu.address), uu, got.mix)
                 IN IF b.error # "" THEN [response |-> response, builder |-> b]
                    ELSE add_mixed_inputs(used, i + 1,
                                          [response |-> response, builder |-> b], anonymity)

\* TransactionExtra::serialize: the public-key field, then the nonce field
serialize(extra) == <<extra.pk, extra.nonce>>

\* set_payment_id_to_transaction_extra_nonce: the payment-id tag, then the hash
payment_id_nonce(hash) == <<0, hash>>

\* get_transaction_inputs_hash: a collision-free hash is its own preimage
get_transaction_inputs_hash(tx) == tx.inputs

\* get_transaction_prefix_hash over version, unlock_time, inputs, outputs, extra
get_transaction_prefix_hash(tx) ==
    [version |-> tx.version, unlock_time |-> tx.unlock_time, inputs |-> tx.inputs,
     outputs |-> tx.outputs, extra |-> tx.extra]

\* faulty variant: the extra blob is hashed into the secret as well
deterministic_keys_from_prefix(tx, tx_derivation_seed) ==
    LET secret == [inputs_hash |-> <<tx.inputs, tx.extra>>, seed |-> tx_derivation_seed]
    IN [secret_key |-> secret, public_key |-> [of |-> secret]]

\* TransactionBuilder::deterministic_keys_from_seed (lines 114-128)
deterministic_keys_from_seed(tx, tx_derivation_seed) ==
    LET secret == [inputs_hash |-> get_transaction_inputs_hash(tx),
                   seed |-> tx_derivation_seed]
    IN [secret_key |-> secret, public_key |-> [of |-> secret]]

\* TransactionBuilder::derive_public_key (lines 18-26)
derive_public_key_fails(to) ==
    ~key_derivation_ok(to.view_public_key, 0) \/ ~derive_public_key_ok(to.spend_public_key)
derive_public_key(to, tx_key, output_index) ==
    crypto_derive_public_key(generate_key_derivation(to.view_public_key, tx_key),
                             output_index, to.spend_public_key)

\* the loop of lines 145-153: outputs installed up to the first failing derivation
sign_outputs(descs, tx_key) ==
    LET bad == {i \in 1..Len(descs) : derive_public_key_fails(descs[i].addr)}
        upto == IF bad = {} THEN Len(descs) ELSE Min(bad) - 1
    IN [i \in 1..Len(descs) |->
           IF i <= upto
           THEN [amount |-> descs[i].amount,
                 key |-> derive_public_key(descs[i].addr, tx_key, i - 1)]
           ELSE [amount |-> 0, key |-> <<>>]]

\* generate_ring_signature fails on a ring member that is no curve point
ring_signature_fails(desc) ==
    \E k \in 1..Len(desc.outputs) : desc.outputs[k].public_key = InvalidPoint

\* one signature vector of lines 160-170: an entry per ring member
ring_signature(prefix_hash, key_image, desc) ==
    [k \in 1..Len(desc.outputs) |->
        [prefix_hash |-> prefix_hash, key_image |-> key_image,
         ring |-> [j \in 1..Len(desc.outputs) |-> desc.outputs[j].public_key],
         secret_key |-> desc.eph_keys.secret_key,
         real_output_index |-> desc.real_output_index]]

\* the loop of lines 157-171: vectors up to the first failing signature
sign_signatures(tx, descs, prefix_hash) ==
    LET bad == {i \in 1..Len(descs) : ring_signature_fails(descs[i])}
        upto == IF bad = {} THEN Len(descs) ELSE Min(bad) - 1
    IN [i \in 1..Len(descs) |->
           IF i <= upto THEN ring_signature(prefix_hash, tx.inputs[i].key_image, descs[i])
           ELSE <<>>]

\* faulty variant: the prefix is hashed before the outputs are installed
sign_order_hash_early == <<"shuffle", "inputs", "keys", "hash", "outputs", "ring">>

\* the statements of TransactionBuilder::sign in program order
sign_order == <<"shuffle", "inputs", "keys", "outputs", "hash", "ring">>

Orders(n) == {f \in [1..n -> 1..n] : \A i, j \in 1..n : i # j => f[i] # f[j]}
Shuffled(seq, f) == [i \in 1..Len(seq) |-> seq[f[i]]]

\* ------------------------------------------------------------------- state
VARIABLES
    m_currency,                \* minimum_fee, default_dust_threshold
    m_unspents,                \* the pool
    m_used_unspents,           \* committed selection
    m_optimization_unspents,   \* provisional selection
    m_used_total,
    m_inputs_count,
    m_ra_amounts,
    args,                      \* arguments of the select_optimal_outputs call
    have_coins, dust_coins, max_digit,   \* locals of select_optimal_outputs
    fee, optimizations,
    optimization_count,        \* by-value budget of the inner call
    digit,                     \* loop variable of optimize_amounts
    pc,                        \* position in select_optimal_outputs
    status,                    \* returned string
    change,                    \* *change
    ra_given,                  \* the node's random-outputs response as received
    ra_response,               \* what add_mixed_inputs left of it
    mpc,                       \* "idle", or "mixed" once add_mixed_inputs has run
    m_transaction, m_extra, m_input_descs, m_output_descs,
    m_inputs_amount, m_outputs_amount,      \* TransactionBuilder
    tx_derivation_seed, tx_keys, hash,      \* argument and locals of sign
    bstep,                     \* 0 building, k in sign before sign_order[k], 7 returned
    error,                     \* what the last builder or mixing call threw, "" if nothing
    off, rel, absolute, opc    \* an offset list, its relative form and that form's sums

selectorState == <<m_used_unspents, m_optimization_unspents, m_used_total,
                   m_inputs_count, m_ra_amounts>>
locals == <<have_coins, dust_coins, max_digit, fee, optimizations,
            optimization_count, digit>>
selectorVars == <<m_currency, m_unspents, selectorState, args, locals, pc, status, change>>
builderVars == <<m_transaction, m_extra, m_input_descs, m_output_descs, m_inputs_amount,
                 m_outputs_amount, tx_derivation_seed, tx_keys, hash, bstep, error>>
mixVars == <<ra_given, ra_response, mpc>>
offsetVars == <<off, rel, absolute, opc>>
vars == <<selectorVars, builderVars, mixVars, offsetVars>>
otherVars == <<builderVars, mixVars, offsetVars>>

\* faulty variant: the fee is left out of the amount to cover
inner_total_amount_nofee == args.total_amount

\* total_amount of the inner select_optimal_outputs call (line 243)
inner_total_amount == args.total_amount + fee

\* faulty variant: an exactly covered amount counts as short
covered_strictly(used_total, total_amount) == used_total > total_amount

\* the return conditions of lines 456 and 482 and the loop condition of line 486
covered(used_total, total_amount) == used_total >= total_amount

\* faulty variant: dust is spent whatever the anonymity
dust_allowed_always(anonymity) == TRUE

\* dust may be spent only without mixing (lines 403, 487, 496)
dust_allowed(anonymity) == anonymity = 0

\* faulty variant: the dust stacks are forgotten
coins_exhausted_nodust(have, dust, anonymity) == DOMAIN have = {}

\* line 487: nothing left to take
coins_exhausted(have, dust, anonymity) ==
    DOMAIN have = {} /\ (~dust_allowed(anonymity) \/ DOMAIN dust = {})

\* faulty variant: the picked outputs are not counted
Pick_uncounted(uns) ==
    /\ m_optimization_unspents' = m_optimization_unspents \o uns
    /\ m_used_total' = m_used_total + SumAmounts(uns)
    /\ UNCHANGED m_inputs_count

\* m_optimization_unspents.push_back(un); m_used_total += un.amount; m_inputs_count += 1
Pick(uns) ==
    /\ m_optimization_unspents' = m_optimization_unspents \o uns
    /\ m_used_total' = m_used_total + SumAmounts(uns)
    /\ m_inputs_count' = m_inputs_count + Len(uns)

NoPick == UNCHANGED <<m_optimization_unspents, m_used_total, m_inputs_count>>

\* UnspentSelector::unoptimize_amounts
unoptimize_amounts ==
    LET r == unoptimize_coins(m_optimization_unspents, 1, have_coins, dust_coins)
    IN /\ have_coins' = r.have
       /\ dust_coins' = r.dust
       /\ m_used_total' = m_used_total - SumAmounts(m_optimization_unspents)
       /\ m_inputs_count' = m_inputs_count - Len(m_optimization_unspents)
       /\ m_optimization_unspents' = <<>>

\* UnspentSelector::combine_optimized_unspents
combine_optimized_unspents ==
    /\ m_ra_amounts' = m_ra_amounts \o
           [i \in 1..Len(m_optimization_unspents) |-> m_optimization_unspents[i].amount]
    /\ m_used_unspents' = m_used_unspents \o m_optimization_unspents
    /\ m_optimization_unspents' = <<>>

\* optimizations of lines 234-236
optimizations_of(optimization_level) ==
    IF optimization_level = "aggressive" THEN OPTIMIZATIONS_PER_TX_AGGRESSIVE
    ELSE IF optimization_level = "minimal" THEN 9 ELSE OPTIMIZATIONS_PER_TX

\* faulty variant: the percentage is not divided out
optimization_median_unscaled ==
    args.effective_median_size *
        (IF args.optimization_level = "aggressive" THEN MEDIAN_PERCENT_AGGRESSIVE
         ELSE MEDIAN_PERCENT)

\* optimization_median of lines 239-241
optimization_median ==
    (args.effective_median_size *
        (IF args.optimization_level = "aggressive" THEN MEDIAN_PERCENT_AGGRESSIVE
         ELSE MEDIAN_PERCENT)) \div 100

\* select_optimal_outputs, lines 229-243: classify the pool, enter the loop
Select ==
    /\ pc = "idle"
    /\ LET c == create_have_coins(m_unspents, 1, args.block_height, args.block_time,
                                  args.confirmed_height)
       IN /\ have_coins' = c.have
          /\ dust_coins' = c.dust
          /\ max_digit' = c.max_digit
    /\ fee' = m_currency.minimum_fee
    /\ optimizations' = optimizations_of(args.optimization_level)
    /\ optimization_count' = optimizations_of(args.optimization_level)
    /\ pc' = "dust_single"
    /\ UNCHANGED <<otherVars, m_currency, m_unspents, selectorState, args, digit, status, change>>

\* inner selector, lines 403-418: one dust coin that covers the shortfall
DustSingle ==
    /\ pc = "dust_single"
    /\ LET covering == {a \in DOMAIN dust_coins : a >= inner_total_amount - m_used_total}
       IN IF dust_allowed(args.anonymity) /\ m_used_total < inner_total_amount /\ covering # {}
          THEN /\ Pick(<<Last(dust_coins[Min(covering)])>>)
               /\ dust_coins' = PopDust(dust_coins, Min(covering))
          ELSE /\ NoPick
               /\ UNCHANGED dust_coins
    /\ pc' = "dust_fill"
    /\ UNCHANGED <<otherVars, m_currency, m_unspents, m_used_unspents, m_ra_amounts, args,
                   have_coins, max_digit, fee, optimizations, optimization_count, digit,
                   status, change>>

\* inner selector, lines 420-431: largest dust first, within the budget
DustFill ==
    /\ pc = "dust_fill"
    /\ IF /\ dust_allowed(args.anonymity)
          /\ m_used_total < inner_total_amount
          /\ DOMAIN dust_coins # {}
          /\ optimization_count >= 1
       THEN /\ Pick(<<Last(dust_coins[Max(DOMAIN dust_coins)])>>)
            /\ dust_coins' = PopDust(dust_coins, Max(DOMAIN dust_coins))
            /\ optimization_count' = optimization_count - 1
            /\ pc' = "dust_fill"
       ELSE /\ NoPick
            /\ UNCHANGED <<dust_coins, optimization_count>>
            /\ pc' = "stack"
    /\ UNCHANGED <<otherVars, m_currency, m_unspents, m_used_unspents, m_ra_amounts, args,
                   have_coins, max_digit, fee, optimizations, digit, status, change>>

\* inner selector, lines 434-454: ten coins from the tallest stack above the threshold
StackOptimize ==
    /\ pc = "stack"
    /\ LET best == best_stack(have_coins)
       IN IF optimization_count >= 10 /\ best.weight # STACK_OPTIMIZATION_THRESHOLD
          THEN LET stack == have_coins[best.digit][best.leading]
               IN /\ Pick(PopN(stack, 10))
                  /\ have_coins' = MapPut(have_coins, best.digit,
                         MapPut(have_coins[best.digit], best.leading,
                                SubSeq(stack, 1, Len(stack) - 10)))
                  /\ optimization_count' = optimization_count - 10
                  /\ pc' = "stack"
                  /\ UNCHANGED digit
          ELSE /\ NoPick
               /\ UNCHANGED <<have_coins, optimization_count>>
               /\ pc' = "optimize1"
               /\ digit' = 0
    /\ UNCHANGED <<otherVars, m_currency, m_unspents, m_used_unspents, m_ra_amounts, args,
                   dust_coins, max_digit, fee, optimizations, status, change>>

\* UnspentSelector::optimize_amounts, one iteration of the digit loop (lines 329-393)
optimize_amounts(at, return_to) ==
    /\ pc = at
    /\ IF \/ digit = max_digit + 1
          \/ (m_used_total >= inner_total_amount /\ Pow10(digit) > m_used_total)
       THEN /\ pc' = return_to
            /\ NoPick
            /\ UNCHANGED <<have_coins, digit>>
       ELSE /\ pc' = at
            /\ digit' = digit + 1
            /\ LET am == digit_need(inner_total_amount, m_used_total, Pow10(digit))
               IN IF digit \notin DOMAIN have_coins
                  THEN NoPick /\ UNCHANGED have_coins
                  ELSE LET two == best_two(have_coins[digit], am)
                           one == best_single(have_coins[digit], am)
                       IN IF two.weight # 0
                          THEN LET h1 == PopHave(have_coins, digit, two.first)
                               IN /\ Pick(<<Last(have_coins[digit][two.first]),
                                            Last(h1[digit][two.second])>>)
                                  /\ have_coins' = PopHave(h1, digit, two.second)
                          ELSE IF am # 10 /\ one # 0
                               THEN /\ Pick(<<Last(have_coins[digit][one])>>)
                                    /\ have_coins' = PopHave(have_coins, digit, one)
                               ELSE NoPick /\ UNCHANGED have_coins
    /\ UNCHANGED <<otherVars, m_currency, m_unspents, m_used_unspents, m_ra_amounts, args,
                   dust_coins, max_digit, fee, optimizations, optimization_count,
                   status, change>>

\* line 455
OptimizeFirst == optimize_amounts("optimize1", "check1")
\* line 526, then return true
OptimizeLast == optimize_amounts("optimize2", "evaluate")

\* lines 456-457
CheckAfterOptimize ==
    /\ pc = "check1"
    /\ pc' = IF covered(m_used_total, inner_total_amount) THEN "evaluate" ELSE "large"
    /\ UNCHANGED <<otherVars, m_currency, m_unspents, selectorState, args, locals, status, change>>

\* lines 459-481: the smallest single coin that covers the shortfall
LargeCoin ==
    /\ pc = "large"
    /\ LET c == large_coin(have_coins, max_digit, inner_total_amount - m_used_total)
       IN IF c # <<>>
          THEN /\ Pick(<<Last(have_coins[c[1]][c[2]])>>)
               /\ have_coins' = PopHave(have_coins, c[1], c[2])
          ELSE NoPick /\ UNCHANGED have_coins
    /\ pc' = "check2"
    /\ UNCHANGED <<otherVars, m_currency, m_unspents, m_used_unspents, m_ra_amounts, args,
                   dust_coins, max_digit, fee, optimizations, optimization_count, digit,
                   status, change>>

\* lines 482-485: done, or roll everything back before the filler loop
CheckAfterLarge ==
    /\ pc = "check2"
    /\ IF covered(m_used_total, inner_total_amount)
       THEN /\ pc' = "evaluate"
            /\ NoPick
            /\ UNCHANGED <<have_coins, dust_coins>>
       ELSE /\ pc' = "filler"
            /\ unoptimize_amounts
    /\ UNCHANGED <<otherVars, m_currency, m_unspents, m_used_unspents, m_ra_amounts, args,
                   max_digit, fee, optimizations, optimization_count, digit,
                   status, change>>

\* lines 486-525: one iteration of the filler loop
Filler ==
    /\ pc = "filler"
    /\ IF ~covered(m_used_total, inner_total_amount)
       THEN IF coins_exhausted(have_coins, dust_coins, args.anonymity)
            THEN /\ pc' = "done"
                 /\ status' = "NOT_ENOUGH_FUNDS"
                 /\ NoPick
                 /\ UNCHANGED <<have_coins, dust_coins, digit>>
            ELSE LET hd == Max(DOMAIN have_coins)
                     ha == Max(DOMAIN have_coins[hd])
                     ha_amount == IF DOMAIN have_coins # {}
                                  THEN Last(have_coins[hd][ha]).amount ELSE 0
                     du == Max(DOMAIN dust_coins)
                     du_amount == IF dust_allowed(args.anonymity) /\ DOMAIN dust_coins # {}
                                  THEN Last(dust_coins[du]).amount ELSE 0
                 IN /\ pc' = "filler"
                    /\ UNCHANGED <<status, digit>>
                    /\ IF ha_amount > du_amount
                       THEN /\ Pick(<<Last(have_coins[hd][ha])>>)
                            /\ have_coins' = PopHave(have_coins, hd, ha)
                            /\ UNCHANGED dust_coins
                       ELSE /\ Pick(<<Last(dust_coins[du])>>)
                            /\ dust_coins' = PopDust(dust_coins, du)
                            /\ UNCHANGED have_coins
       ELSE /\ pc' = "optimize2"
            /\ digit' = 0
            /\ NoPick
            /\ UNCHANGED <<have_coins, dust_coins, status>>
    /\ UNCHANGED <<otherVars, m_currency, m_unspents, m_used_unspents, m_ra_amounts, args,
                   max_digit, fee, optimizations, optimization_count, change>>

\* faulty variant: the provisional selection is committed before the return
return_does_not_fit_committed ==
    /\ pc' = "done"
    /\ status' = "TRANSACTION_DOES_NOT_FIT_IN_BLOCK"
    /\ combine_optimized_unspents
    /\ UNCHANGED <<m_used_total, m_inputs_count, have_coins, dust_coins, fee,
                   optimizations, optimization_count, change>>

\* the return of lines 255-256: nothing of the selector changes
return_does_not_fit ==
    /\ pc' = "done"
    /\ status' = "TRANSACTION_DOES_NOT_FIT_IN_BLOCK"
    /\ UNCHANGED <<selectorState, have_coins, dust_coins, fee, optimizations,
                   optimization_count, change>>

\* faulty variant: the selection is committed whatever the size asks for
fee_covers_always(change_dust_fee, size_fee) == TRUE

\* the commit test of line 258
fee_covers(change_dust_fee, size_fee) == fee + change_dust_fee >= size_fee

\* faulty variant: the new fee is rounded down to the dust threshold
retry_fee_rounded_down(size_fee, change_dust_fee) ==
    ((size_fee - change_dust_fee) \div m_currency.default_dust_threshold)
        * m_currency.default_dust_threshold

\* the fee of the next iteration, lines 268-270
retry_fee(size_fee, change_dust_fee) ==
    ((size_fee - change_dust_fee + m_currency.default_dust_threshold - 1)
        \div m_currency.default_dust_threshold)
        * m_currency.default_dust_threshold

\* select_optimal_outputs, lines 245-271: size retry, fit check, commit or fee retry
Evaluate ==
    /\ pc = "evaluate"
    /\ LET change_dust_fee == (m_used_total - args.total_amount - fee)
                                  % m_currency.default_dust_threshold
           tx_size == get_maximum_tx_size(m_inputs_count, args.total_outputs + 8,
                                          args.anonymity)
           size_fee == args.fee_per_byte * tx_size
       IN IF tx_size > optimization_median /\ optimizations > 0
          THEN /\ unoptimize_amounts
               /\ optimizations' = IF optimizations \div 2 < 10 THEN 0
                                   ELSE optimizations \div 2
               /\ optimization_count' = optimizations'
               /\ pc' = "dust_single"
               /\ UNCHANGED <<m_used_unspents, m_ra_amounts, fee, status, change>>
          ELSE IF tx_size > args.effective_median_size
          THEN return_does_not_fit
          ELSE IF fee_covers(change_dust_fee, size_fee)
          THEN /\ change' = m_used_total - args.total_amount - fee - change_dust_fee
               /\ combine_optimized_unspents
               /\ pc' = "done"
               /\ status' = ""
               /\ UNCHANGED <<m_used_total, m_inputs_count, have_coins, dust_coins, fee,
                              optimizations, optimization_count>>
          ELSE /\ fee' = retry_fee(size_fee, change_dust_fee)
               /\ unoptimize_amounts
               /\ optimization_count' = optimizations
               /\ pc' = "dust_single"
               /\ UNCHANGED <<m_used_unspents, m_ra_amounts, optimizations, status, change>>
    /\ UNCHANGED <<otherVars, m_currency, m_unspents, args, max_digit, digit>>


\* faulty variant: the running totals survive the reset
reset_keeps_totals(unspents) ==
    /\ pc = "done"
    /\ m_unspents' = unspents
    /\ m_used_unspents' = <<>>
    /\ m_optimization_unspents' = <<>>
    /\ m_ra_amounts' = <<>>
    /\ pc' = "idle"
    /\ status' = ""
    /\ have_coins' = EmptyMap
    /\ dust_coins' = EmptyMap
    /\ max_digit' = 0
    /\ fee' = 0
    /\ optimizations' = 0
    /\ optimization_count' = 0
    /\ digit' = 0
    /\ UNCHANGED <<otherVars, m_currency, args, change, m_used_total, m_inputs_count>>

\* UnspentSelector::reset; the locals of the finished call are gone
reset(unspents) ==
    /\ pc = "done"
    /\ m_unspents' = unspents
    /\ m_used_unspents' = <<>>
    /\ m_optimization_unspents' = <<>>
    /\ m_used_total' = 0
    /\ m_inputs_count' = 0
    /\ m_ra_amounts' = <<>>
    /\ pc' = "idle"
    /\ status' = ""
    /\ have_coins' = EmptyMap
    /\ dust_coins' = EmptyMap
    /\ max_digit' = 0
    /\ fee' = 0
    /\ optimizations' = 0
    /\ optimization_count' = 0
    /\ digit' = 0
    /\ UNCHANGED <<otherVars, m_currency, args, change>>

\* --------------------------------------------------------- enumerated inputs
\* chain tip of every call
TipHeight == 10
TipTime == 1000
ConfirmedHeight == 8

\* kinds of wallet outputs: amount, height, unlock_time
KindList ==
    << [amount |-> 3,    height |-> 3, unlock_time |-> 0],
       [amount |-> 7,    height |-> 3, unlock_time |-> 0],
       [amount |-> 15,   height |-> 3, unlock_time |-> 0],
       [amount |-> 40,   height |-> 3, unlock_time |-> 600],
       [amount |-> 500,  height |-> 7, unlock_time |-> 10],
       [amount |-> 15,   height |-> 3, unlock_time |-> 2000],
       [amount |-> 1000, height |-> 3, unlock_time |-> 0],
       [amount |-> 1005, height |-> 3, unlock_time |-> 0],
       [amount |-> 1000, height |-> 8, unlock_time |-> 0],
       [amount |-> 500,  height |-> 3, unlock_time |-> 11] >>

\* the pool whose i-th output is of kind ks[i]
PoolOf(ks) ==
    [i \in 1..Len(ks) |->
        Output(i, KindList[ks[i]].amount, i, KindList[ks[i]].height,
               KindList[ks[i]].unlock_time, 1, "A1", TRUE)]

\* coins of the same amount are interchangeable, so pools are listed by kind
KindSeqs(n) ==
    {ks \in [1..n -> 1..Len(KindList)] : \A i \in 1..n : \A j \in i..n : ks[i] <= ks[j]}

SmallPools == {PoolOf(ks) : ks \in UNION {KindSeqs(n) : n \in 0..MaxPool}}

\* n coins of kind k
Stack(k, n) == [i \in 1..n |-> k]

\* pools with tall stacks
BigPools ==
    {PoolOf(ks) : ks \in {Stack(1, 1) \o Stack(2, 21),
                          Stack(2, 12) \o Stack(4, 25),
                          Stack(1, 10) \o Stack(3, 3) \o Stack(5, 32)}}

Currencies == {[minimum_fee |-> 10, default_dust_threshold |-> 10]}

CallArgs(anonymity, total_amount, fee_per_byte, optimization_level, median) ==
    [block_height |-> TipHeight, block_time |-> TipTime,
     confirmed_height |-> ConfirmedHeight,
     effective_median_size |-> median, anonymity |-> anonymity,
     total_amount |-> total_amount, total_outputs |-> 1,
     fee_per_byte |-> fee_per_byte, optimization_level |-> optimization_level]

SelectorArgs ==
    {CallArgs(an, ta, fpb, lv[1], lv[2]) :
        an \in {0, 2}, ta \in {25, 990, 1000}, fpb \in {0, 1},
        lv \in {<<"normal", 200000>>, <<"aggressive", 700>>}}
    \cup {CallArgs(0, 1100, 1, "minimal", 12000)}

InitSelector(pools, argset) ==
    /\ m_currency \in Currencies
    /\ m_unspents \in pools
    /\ args \in argset
    /\ m_used_unspents = <<>>
    /\ m_optimization_unspents = <<>>
    /\ m_used_total = 0
    /\ m_inputs_count = 0
    /\ m_ra_amounts = <<>>
    /\ have_coins = EmptyMap
    /\ dust_coins = EmptyMap
    /\ max_digit = 0
    /\ fee = 0
    /\ optimizations = 0
    /\ optimization_count = 0
    /\ digit = 0
    /\ pc = "idle"
    /\ status = ""
    /\ change = 0

\* TransactionBuilder::TransactionBuilder (lines 28-31)
InitBuilder ==
    /\ m_transaction = [version |-> 1, unlock_time |-> 0, inputs |-> <<>>,
                        outputs |-> <<>>, extra |-> <<>>, signatures |-> <<>>]
    /\ m_extra = [pk |-> <<>>, nonce |-> <<>>]
    /\ m_input_descs = <<>>
    /\ m_output_descs = <<>>
    /\ m_inputs_amount = 0
    /\ m_outputs_amount = 0
    /\ tx_derivation_seed = 0
    /\ tx_keys = <<>>
    /\ hash = <<>>
    /\ bstep = 0
    /\ error = ""

InitMixing ==
    /\ ra_given = EmptyMap
    /\ ra_response = EmptyMap
    /\ mpc = "idle"

NoOffsets ==
    /\ off = <<>>
    /\ rel = <<>>
    /\ absolute = <<>>
    /\ opc = "idle"

\* pools handed to reset
ResetPools == {PoolOf(ks) : ks \in {<<>>, <<7>>, <<2, 3, 5>>}}

Reset == \E unspents \in ResetPools : reset(unspents)

\* ------------------------------------------------------------ mixing inputs
\* entries a node may return for an amount: global index, amount as sent
RaEntry(position, global_index, amount) ==
    Output(100 + position, amount, global_index, 1, 0, 1, "A1", TRUE)

RaPattern ==
    UNION {[1..n -> {<<1, 0>>, <<2, 0>>, <<3, 0>>, <<3, 1>>}] : n \in 0..MaxBucket}

\* the response that holds the pattern's entries for every amount asked for
ResponseOf(pattern, amounts) ==
    [a \in amounts |->
        [k \in 1..Len(pattern) |-> RaEntry(k, pattern[k][1], a + pattern[k][2])]]

AmountsOf(unspents) == {unspents[k].amount : k \in 1..Len(unspents)}

\* UnspentSelector::add_mixed_inputs with the anonymity of the selection
AddMixedInputs ==
    /\ pc = "done"
    /\ mpc = "idle"
    /\ bstep = 0
    /\ \E pattern \in RaPattern :
          LET given == ResponseOf(pattern, AmountsOf(m_used_unspents))
              r == add_mixed_inputs(m_used_unspents, 1,
                       [response |-> given,
                        builder |-> [descs |-> m_input_descs,
                                     inputs_amount |-> m_inputs_amount,
                                     error |-> ""]],
                       args.anonymity)
          IN /\ ra_given' = given
             /\ ra_response' = r.response
             /\ m_input_descs' = r.builder.descs
             /\ m_inputs_amount' = r.builder.inputs_amount
             /\ error' = r.builder.error
    /\ mpc' = "mixed"
    /\ UNCHANGED <<selectorVars, offsetVars, m_transaction, m_extra, m_output_descs,
                   m_outputs_amount, tx_derivation_seed, tx_keys, hash, bstep>>

\* ----------------------------------------------------------- builder calls
\* outputs the wallet may spend directly
BuilderReals ==
    {Output(1, 500, 2, 3, 0, 1, "A1", TRUE),
     Output(2, 700, 3, 3, 0, 1, "A1", TRUE),
     Output(3, 500, 2, 3, 0, 1, "A1", FALSE),
     Output(4, 500, 2, 3, 0, InvalidPoint, "A1", TRUE)}

\* mix outputs for a real output of the given amount
BuilderMixes(amount) ==
    {<<>>,
     <<RaEntry(1, 3, amount), RaEntry(2, 1, amount)>>,
     <<RaEntry(1, 2, amount)>>,
     <<RaEntry(1, 1, amount + 1)>>,
     <<[RaEntry(1, 4, amount) EXCEPT !.public_key = InvalidPoint]>>}

\* TransactionBuilder::add_input called directly
AddInput ==
    /\ bstep = 0
    /\ error = ""
    /\ Len(m_input_descs) < MaxInputs
    /\ \E real_output \in BuilderReals :
          \E mix_outputs \in BuilderMixes(real_output.amount) :
             LET b == add_input([descs |-> m_input_descs,
                                 inputs_amount |-> m_inputs_amount, error |-> ""],
                                AccountKeysOf("A1"), real_output, mix_outputs)
             IN /\ m_input_descs' = b.descs
                /\ m_inputs_amount' = b.inputs_amount
                /\ error' = b.error
    /\ UNCHANGED <<selectorVars, mixVars, offsetVars, m_transaction, m_extra,
                   m_output_descs, m_outputs_amount, tx_derivation_seed, tx_keys, hash,
                   bstep>>

\* destinations: a valid address, and one whose view key is no curve point
BuilderAddresses ==
    {[spend_public_key |-> 31, view_public_key |-> 32],
     [spend_public_key |-> 41, view_public_key |-> InvalidPoint]}

\* TransactionBuilder::add_output (lines 45-53)
AddOutput ==
    /\ bstep = 0
    /\ error = ""
    /\ Len(m_output_descs) < MaxOutputs
    /\ \E amount \in {5} : \E to \in BuilderAddresses :
          /\ m_outputs_amount' = m_outputs_amount + amount
          /\ m_output_descs' = Append(m_output_descs, [amount |-> amount, addr |-> to])
    /\ UNCHANGED <<selectorVars, mixVars, offsetVars, m_transaction, m_extra,
                   m_input_descs, m_inputs_amount, tx_derivation_seed, tx_keys, hash,
                   bstep, error>>

\* TransactionBuilder::set_extra_nonce (lines 39-43)
set_extra_nonce(nonce) ==
    /\ m_extra' = [m_extra EXCEPT !.nonce = <<nonce>>]
    /\ m_transaction' = [m_transaction EXCEPT !.extra = serialize(m_extra')]

SetExtraNonce ==
    /\ bstep = 0
    /\ error = ""
    /\ set_extra_nonce(<<9>>)
    /\ UNCHANGED <<selectorVars, mixVars, offsetVars, m_input_descs, m_output_descs,
                   m_inputs_amount, m_outputs_amount, tx_derivation_seed, tx_keys, hash,
                   bstep, error>>

\* TransactionBuilder::set_payment_id (lines 33-37)
SetPaymentId ==
    /\ bstep = 0
    /\ error = ""
    /\ set_extra_nonce(payment_id_nonce(5))
    /\ UNCHANGED <<selectorVars, mixVars, offsetVars, m_input_descs, m_output_descs,
                   m_inputs_amount, m_outputs_amount, tx_derivation_seed, tx_keys, hash,
                   bstep, error>>

\* TransactionBuilder::sign is entered
Sign ==
    /\ bstep = 0
    /\ \E seed \in {1, 2} : tx_derivation_seed' = seed
    /\ bstep' = 1
    /\ error' = ""
    /\ UNCHANGED <<selectorVars, mixVars, offsetVars, m_transaction, m_extra,
                   m_input_descs, m_output_descs, m_inputs_amount, m_outputs_amount,
                   tx_keys, hash>>

AtSignStep(name) == bstep \in 1..Len(sign_order) /\ sign_order[bstep] = name /\ error = ""

\* lines 131-132
SignShuffle ==
    /\ AtSignStep("shuffle")
    /\ \E f \in Orders(Len(m_output_descs)) :
          m_output_descs' = Shuffled(m_output_descs, f)
    /\ \E g \in Orders(Len(m_input_descs)) :
          m_input_descs' = Shuffled(m_input_descs, g)
    /\ bstep' = bstep + 1
    /\ UNCHANGED <<selectorVars, mixVars, offsetVars, m_transaction, m_extra,
                   m_inputs_amount, m_outputs_amount, tx_derivation_seed, tx_keys, hash,
                   error>>

\* lines 135-137: the inputs are moved out of their descriptions
SignInputs ==
    /\ AtSignStep("inputs")
    /\ m_transaction' = [m_transaction EXCEPT
           !.inputs = [i \in 1..Len(m_input_descs) |-> m_input_descs[i].input]]
    /\ m_input_descs' = [i \in 1..Len(m_input_descs) |->
           [m_input_descs[i] EXCEPT !.input.output_indexes = <<>>]]
    /\ bstep' = bstep + 1
    /\ UNCHANGED <<selectorVars, mixVars, offsetVars, m_extra, m_output_descs,
                   m_inputs_amount, m_outputs_amount, tx_derivation_seed, tx_keys, hash,
                   error>>

\* lines 138-142: the transaction keys, and the public key into extra
SignKeys ==
    /\ AtSignStep("keys")
    /\ tx_keys' = deterministic_keys_from_seed(m_transaction, tx_derivation_seed)
    /\ m_extra' = [m_extra EXCEPT !.pk = <<tx_keys'.public_key>>]
    /\ m_transaction' = [m_transaction EXCEPT !.extra = serialize(m_extra')]
    /\ bstep' = bstep + 1
    /\ UNCHANGED <<selectorVars, mixVars, offsetVars, m_input_descs, m_output_descs,
                   m_inputs_amount, m_outputs_amount, tx_derivation_seed, hash, error>>

\* lines 144-153: the outputs with their derived keys
SignOutputs ==
    /\ AtSignStep("outputs")
    /\ m_transaction' = [m_transaction EXCEPT
           !.outputs = sign_outputs(m_output_descs,
                                    IF tx_keys = <<>> THEN <<>> ELSE tx_keys.secret_key)]
    /\ IF \E i \in 1..Len(m_output_descs) : derive_public_key_fails(m_output_descs[i].addr)
       THEN /\ error' = "output keys detected as corrupted during output key derivation"
            /\ UNCHANGED bstep
       ELSE /\ bstep' = bstep + 1
            /\ UNCHANGED error
    /\ UNCHANGED <<selectorVars, mixVars, offsetVars, m_extra, m_input_descs,
                   m_output_descs, m_inputs_amount, m_outputs_amount, tx_derivation_seed,
                   tx_keys, hash>>

\* line 155
SignHash ==
    /\ AtSignStep("hash")
    /\ hash' = get_transaction_prefix_hash(m_transaction)
    /\ bstep' = bstep + 1
    /\ UNCHANGED <<selectorVars, mixVars, offsetVars, m_transaction, m_extra,
                   m_input_descs, m_output_descs, m_inputs_amount, m_outputs_amount,
                   tx_derivation_seed, tx_keys, error>>

\* lines 156-172: the ring signatures, then the transaction is returned
SignRing ==
    /\ AtSignStep("ring")
    /\ m_transaction' = [m_transaction EXCEPT
           !.signatures = sign_signatures(m_transaction, m_input_descs, hash)]
    /\ IF \E i \in 1..Len(m_input_descs) : ring_signature_fails(m_input_descs[i])
       THEN /\ error' = "output keys detected as corrupted during ring signing"
            /\ UNCHANGED bstep
       ELSE /\ bstep' = bstep + 1
            /\ UNCHANGED error
    /\ UNCHANGED <<selectorVars, mixVars, offsetVars, m_extra, m_input_descs,
                   m_output_descs, m_inputs_amount, m_outputs_amount, tx_derivation_seed,
                   tx_keys, hash>>

\* sign has returned m_transaction
Signed == bstep = Len(sign_order) + 1

\* --------------------------------------------------------- offset conversion
OffsetValues == {0, 1, 2, IndexModulus \div 2, IndexModulus - 1}
OffsetLists == UNION {[1..n -> OffsetValues] : n \in 0..MaxOffsets}

ToRelative ==
    /\ opc = "start"
    /\ rel' = absolute_output_offsets_to_relative(off)
    /\ opc' = "relative"
    /\ UNCHANGED <<selectorVars, builderVars, mixVars, off, absolute>>

ToAbsolute ==
    /\ opc = "relative"
    /\ absolute' = relative_output_offsets_to_absolute(rel)
    /\ opc' = "absolute"
    /\ UNCHANGED <<selectorVars, builderVars, mixVars, off, rel>>

\* --------------------------------------------------------- specifications
SelectorNext ==
    \/ Select
    \/ DustSingle
    \/ DustFill
    \/ StackOptimize
    \/ OptimizeFirst
    \/ CheckAfterOptimize
    \/ LargeCoin
    \/ CheckAfterLarge
    \/ Filler
    \/ OptimizeLast
    \/ Evaluate

\* the selector over the enumerated pools and calls
Init ==
    /\ InitSelector(SmallPools \cup BigPools, SelectorArgs)
    /\ InitBuilder /\ InitMixing /\ NoOffsets

Next == SelectorNext \/ Reset

Spec == Init /\ [][Next]_vars

\* selection followed by add_mixed_inputs
MixKinds ==
    {<< <<1000, 1, "A1", 1, TRUE>> >>,
     << <<500, 1, "A1", 1, TRUE>>, <<500, 2, "A1", 1, TRUE>> >>,
     << <<500, 2, "A1", 1, TRUE>>, <<700, 3, "A1", 1, TRUE>> >>,
     << <<1000, 2, "A1", 1, FALSE>> >>,
     << <<1000, 2, "A2", 1, TRUE>> >>,
     << <<1000, 2, "bad", 1, TRUE>> >>,
     << <<1000, 2, "A1", InvalidPoint, TRUE>> >>,
     << <<15, 1, "A1", 1, TRUE>>, <<1005, 2, "A1", 1, TRUE>> >>,
     << <<500, 1, "A1", 1, TRUE>>, <<500, 2, "A1", 1, FALSE>> >>}

MixPools ==
    {[i \in 1..Len(ks) |-> Output(i, ks[i][1], ks[i][2], 3, 0, ks[i][4], ks[i][3], ks[i][5])] :
        ks \in MixKinds}

MixArgs ==
    {CallArgs(an, ta, 0, "normal", median) :
        an \in {0, 1, 2}, ta \in {25, 990, 1100}, median \in {200000, 500}}

InitMix ==
    /\ InitSelector(MixPools, MixArgs)
    /\ InitBuilder /\ InitMixing /\ NoOffsets

NextMix == SelectorNext \/ AddMixedInputs

SpecMix == InitMix /\ [][NextMix]_vars

\* the builder driven directly
InitBuild ==
    /\ InitSelector({<<>>}, {CallArgs(0, 0, 0, "normal", 0)})
    /\ InitBuilder /\ InitMixing /\ NoOffsets

NextBuild ==
    \/ AddInput
    \/ AddOutput
    \/ SetExtraNonce
    \/ SetPaymentId
    \/ Sign
    \/ SignShuffle
    \/ SignInputs
    \/ SignKeys
    \/ SignOutputs
    \/ SignHash
    \/ SignRing

SpecBuild == InitBuild /\ [][NextBuild]_vars

\* a wallet of many coins of amount 1, and wallets with tall stacks
OnesPool == [i \in 1..ManyCoins |-> Output(i, 1, i, 3, 0, 1, "A1", TRUE)]

\* one coin of 3 and twenty coins of 7
PairPool == PoolOf(Stack(1, 1) \o Stack(2, 20))

\* stacks at digit 0: one coin of 3, ten coins of 7, twelve coins of 5
PairChoicePool ==
    [i \in 1..23 |->
        Output(i, IF i = 1 THEN 3 ELSE IF i <= 11 THEN 7 ELSE 5, i, 3, 0, 1, "A1", TRUE)]

TallPools ==
    {OnesPool, PairPool, PairChoicePool} \cup BigPools

TallCurrencies ==
    {[minimum_fee |-> 10, default_dust_threshold |-> 10],
     [minimum_fee |-> 0, default_dust_threshold |-> 10]}

TallArgs ==
    {CallArgs(0, ta, 0, lv[1], lv[2]) :
        ta \in {ManyCoins - 10, ManyCoins, 990},
        lv \in {<<"normal", 2000>>, <<"normal", 200000>>, <<"aggressive", 700>>}}

InitTall ==
    /\ m_currency \in TallCurrencies
    /\ m_unspents \in TallPools
    /\ args \in TallArgs
    /\ m_used_unspents = <<>>
    /\ m_optimization_unspents = <<>>
    /\ m_used_total = 0
    /\ m_inputs_count = 0
    /\ m_ra_amounts = <<>>
    /\ have_coins = EmptyMap
    /\ dust_coins = EmptyMap
    /\ max_digit = 0
    /\ fee = 0
    /\ optimizations = 0
    /\ optimization_count = 0
    /\ digit = 0
    /\ pc = "idle"
    /\ status = ""
    /\ change = 0
    /\ InitBuilder /\ InitMixing /\ NoOffsets

\* the selector over wallets with tall stacks
SpecTall == InitTall /\ [][SelectorNext]_vars

\* one call of select_optimal_outputs that is run to its return: the loop of
\* lines 242-272 keeps executing until one of its return statements is reached
LivePools ==
    {PoolOf(ks) : ks \in KindSeqs(1)} \cup
    {PoolOf(ks) : ks \in {<<1, 2, 3>>, <<1, 3, 7>>, <<3, 3, 5>>, <<5, 6, 7>>, <<2, 6, 8>>}}
    \cup {PairChoicePool}

InitLive ==
    /\ InitSelector(LivePools, SelectorArgs)
    /\ InitBuilder /\ InitMixing /\ NoOffsets

SpecLive == InitLive /\ [][SelectorNext]_vars /\ WF_vars(SelectorNext)

\* the offset conversion on enumerated lists
InitOffsets ==
    /\ InitSelector({<<>>}, {CallArgs(0, 0, 0, "normal", 0)})
    /\ InitBuilder /\ InitMixing
    /\ off \in OffsetLists
    /\ rel = <<>>
    /\ absolute = <<>>
    /\ opc = "start"

NextOffsets == ToRelative \/ ToAbsolute

SpecOffsets == InitOffsets /\ [][NextOffsets]_vars

\* ------------------------------------------------------------------ claims
Range(seq) == {seq[k] : k \in 1..Len(seq)}

\* the outputs in the have and dust stacks
HaveOutputs ==
    UNION {UNION {Range(have_coins[d][a]) : a \in DOMAIN have_coins[d]} :
           d \in DOMAIN have_coins}
DustOutputs == UNION {Range(dust_coins[a]) : a \in DOMAIN dust_coins}

\* confirmed and unlocked at the call's chain tip
Spendable(un) ==
    /\ un.height < args.confirmed_height
    /\ is_transaction_spend_time_unlocked(un.unlock_time, args.block_height,
                                          args.block_time)

\* what the pool can pay with at the call's anonymity
SpendableSum(unspents) ==
    SumAmounts(SelectSeq(unspents,
        LAMBDA un : Spendable(un) /\ (args.anonymity = 0 \/ ~is_dust(un.amount))))

Returned(s) == pc = "done" /\ status = s

\* C1: when select_optimal_outputs returns OK, used_total covers total_amount plus
\* the fee of the last iteration, change is what is left of used_total after
\* total_amount, fee and the dust remainder, and so total_amount + change <= used_total.
C1_CommittedTotalCoversAmountAndFee ==
    Returned("") =>
        LET rest == m_used_total - args.total_amount - fee
        IN /\ m_used_total >= args.total_amount + fee
           /\ change = rest - (rest % m_currency.default_dust_threshold)
           /\ args.total_amount + change <= m_used_total

\* an OK after a fee retry, with a dust remainder absorbed into the fee
C1_Witness ==
    /\ Returned("")
    /\ fee > m_currency.minimum_fee
    /\ (m_used_total - args.total_amount - fee) % m_currency.default_dust_threshold # 0
    /\ change > 0

\* C2: NOT_ENOUGH_FUNDS is returned only when the spendable outputs (dust counted
\* at anonymity 0 only) total less than total_amount + fee, the inner selector never
\* succeeds with less, and one output of 500 cannot pay 1000.
C2_NotEnoughFundsExactly ==
    /\ Returned("NOT_ENOUGH_FUNDS") => SpendableSum(m_unspents) < args.total_amount + fee
    /\ pc = "evaluate" => SpendableSum(m_unspents) >= args.total_amount + fee
    /\ (/\ pc = "done"
        /\ Len(m_unspents) = 1
        /\ m_unspents[1].amount = 500
        /\ args.total_amount = 1000) => status = "NOT_ENOUGH_FUNDS"

\* NOT_ENOUGH_FUNDS after a fee retry, with spendable dust in the pool
C2_Witness ==
    /\ Returned("NOT_ENOUGH_FUNDS")
    /\ fee > m_currency.minimum_fee
    /\ args.anonymity = 0
    /\ \E k \in 1..Len(m_unspents) : Spendable(m_unspents[k]) /\ is_dust(m_unspents[k].amount)

\* C3: no unconfirmed or locked output is in the have or dust stacks or among the
\* provisional or committed unspents.
C3_OnlySpendableOutputs ==
    \A un \in HaveOutputs \cup DustOutputs \cup Range(m_optimization_unspents)
              \cup Range(m_used_unspents) : Spendable(un)

\* an OK over a pool that holds an unconfirmed and a locked output
C3_Witness ==
    /\ Returned("")
    /\ m_used_unspents # <<>>
    /\ \E k \in 1..Len(m_unspents) : m_unspents[k].height >= args.confirmed_height
    /\ \E k \in 1..Len(m_unspents) :
          ~is_transaction_spend_time_unlocked(m_unspents[k].unlock_time,
                                              args.block_height, args.block_time)

\* C4: with anonymity above 0 no dust output is selected, provisionally or committed.
C4_NoDustWhenMixing ==
    args.anonymity # 0 =>
        \A un \in Range(m_optimization_unspents) \cup Range(m_used_unspents) :
            ~is_dust(un.amount)

\* an OK with mixing while spendable dust stays in its stack
C4_Witness ==
    /\ Returned("")
    /\ args.anonymity # 0
    /\ m_used_unspents # <<>>
    /\ DOMAIN dust_coins # {}

\* the ring members of an input description other than the real output
MixMembers(desc) ==
    {desc.outputs[k] : k \in (1..Len(desc.outputs)) \ {desc.real_output_index + 1}}

\* what add_mixed_inputs has popped from the bucket of an amount
Popped(amount) ==
    SubSeq(ra_given[amount], Len(ra_response[amount]) + 1, Len(ra_given[amount]))

\* C5: add_mixed_inputs forwards, for each committed unspent in order, an input of
\* exactly anonymity ring members popped from the tail of the bucket of the unspent's
\* amount, none with the real output's global_index; it fails once a bucket is empty
\* before anonymity members were collected; no response output is used in two rings.
C5_RingsPoppedFromBuckets ==
    mpc = "mixed" =>
        LET n == Len(m_input_descs)
        IN /\ n <= Len(m_used_unspents)
           /\ error = "" => n = Len(m_used_unspents)
           /\ \A i \in 1..n :
                LET desc == m_input_descs[i]
                    uu == m_used_unspents[i]
                IN /\ desc.outputs[desc.real_output_index + 1] = uu
                   /\ Len(desc.outputs) = args.anonymity + 1
                   /\ Cardinality(MixMembers(desc)) = args.anonymity
                   /\ MixMembers(desc) \subseteq Range(Popped(uu.amount))
                   /\ \A o \in MixMembers(desc) : o.global_index # uu.global_index
           /\ \A a \in DOMAIN ra_response :
                ra_response[a] = SubSeq(ra_given[a], 1, Len(ra_response[a]))
           /\ \A i, j \in 1..n :
                i # j => MixMembers(m_input_descs[i]) \cap MixMembers(m_input_descs[j]) = {}
           /\ error = "Not enough anonymity for amount" =>
                /\ n < Len(m_used_unspents)
                /\ ra_response[m_used_unspents[n + 1].amount] = <<>>

\* two rings of two members each, with a colliding candidate popped and discarded
C5_Witness ==
    /\ mpc = "mixed"
    /\ error = ""
    /\ args.anonymity = 2
    /\ Len(m_input_descs) = 2
    /\ \E a \in DOMAIN ra_given : Len(Popped(a)) > args.anonymity

\* the recorded key image of the real output of an input description
RecordedKeyImage(desc) == desc.outputs[desc.real_output_index + 1].key_image

\* C6: a real output whose recorded key_image differs from the derived one aborts
\* add_input without appending the input, and no transaction returned by sign holds
\* an input whose key_image differs from the derived one.
C6_KeyImageMismatchAborts ==
    [][/\ error' = "generated keyimage does not match input" =>
            /\ m_input_descs' = m_input_descs
            /\ m_transaction' = m_transaction
            /\ bstep' = 0
       /\ \A i \in 1..Len(m_input_descs') :
            m_input_descs'[i].input.key_image = RecordedKeyImage(m_input_descs'[i])
       /\ Signed' =>
            \A i \in 1..Len(m_transaction'.inputs) :
                m_transaction'.inputs[i].key_image = RecordedKeyImage(m_input_descs'[i])]_vars

\* a mismatching output was fed after an input had been accepted
C6_Witness ==
    /\ error = "generated keyimage does not match input"
    /\ Len(m_input_descs) = 1
    /\ m_inputs_amount > m_input_descs[1].input.amount

\* C7: every ring member of every input held by the builder, and of every input of a
\* signed transaction, has the real output's amount; add_input with a mix output of
\* another amount is rejected and appends no input.
C7_SameAmountRings ==
    [][/\ error' = "Mixin outputs with different amounts is not allowed" =>
            m_input_descs' = m_input_descs
       /\ \A i \in 1..Len(m_input_descs') :
            \A k \in 1..Len(m_input_descs'[i].outputs) :
                m_input_descs'[i].outputs[k].amount = m_input_descs'[i].input.amount
       /\ Signed' =>
            \A i \in 1..Len(m_transaction'.inputs) :
                \A k \in 1..Len(m_input_descs'[i].outputs) :
                    m_input_descs'[i].outputs[k].amount = m_transaction'.inputs[i].amount]_vars

\* a ring with a member of another amount was rejected after a ring of three was accepted
C7_Witness ==
    /\ error = "Mixin outputs with different amounts is not allowed"
    /\ Len(m_input_descs) = 1
    /\ Len(m_input_descs[1].outputs) = 3

\* C8: for every input made by add_mixed_inputs, the absolute form of output_indexes
\* is strictly increasing: no two ring members have the same global_index.
C8_StrictlyIncreasingIndexes ==
    \A i \in 1..Len(m_input_descs) :
        LET abs == relative_output_offsets_to_absolute(m_input_descs[i].input.output_indexes)
        IN \A k \in 1..(Len(abs) - 1) : abs[k] < abs[k + 1]

\* C9: absolute_output_offsets_to_relative gives offsets[0] = absolute[0] and
\* offsets[k] = absolute[k] - absolute[k-1] in the width of an index, and the running
\* sum of the offsets is the list it was given, for every list.
C9_OffsetsRoundTrip ==
    /\ opc \in {"relative", "absolute"} =>
        /\ Len(rel) = Len(off)
        /\ off # <<>> => rel[1] = off[1]
        /\ \A k \in 2..Len(off) :
            /\ rel[k] = (off[k] - off[k - 1]) % IndexModulus
            /\ off[k] >= off[k - 1] => rel[k] = off[k] - off[k - 1]
    /\ opc = "absolute" => absolute = off

\* a list of three indexes that is not sorted, converted there and back
C9_Witness ==
    /\ opc = "absolute"
    /\ Len(off) = MaxOffsets
    /\ off[2] < off[1]
    /\ off[3] > off[2]

\* the steps of sign that have been executed
Done(name) == \E k \in 1..(bstep - 1) : sign_order[k] = name

\* the prefix of a transaction
Prefix(tx) == <<tx.version, tx.unlock_time, tx.inputs, tx.outputs, tx.extra>>

\* C10: sign shuffles, then moves the inputs into the prefix, then derives the tx keys
\* from the inputs hash and installs the public key in extra, then installs the output
\* keys, then computes the prefix hash, and only then signs; no field of the prefix
\* changes after the prefix hash has been computed.
C10_SignOrder ==
    [][/\ m_transaction'.inputs # m_transaction.inputs => Done("shuffle")
       /\ tx_keys' # tx_keys =>
            /\ Done("inputs")
            /\ tx_keys'.secret_key.inputs_hash = m_transaction.inputs
            /\ Len(m_transaction.inputs) = Len(m_input_descs)
            /\ m_transaction'.extra[1] = <<tx_keys'.public_key>>
       /\ m_transaction'.outputs # m_transaction.outputs =>
            /\ Done("keys")
            /\ \A i \in 1..Len(m_transaction'.outputs) :
                 m_transaction'.outputs[i].key = <<>> \/
                 m_transaction'.outputs[i].key =
                     derive_public_key(m_output_descs[i].addr, tx_keys.secret_key, i - 1)
       /\ hash' # hash =>
            /\ Done("shuffle") /\ Done("inputs") /\ Done("keys") /\ Done("outputs")
            /\ Len(m_transaction.outputs) = Len(m_output_descs)
       /\ m_transaction'.signatures # m_transaction.signatures =>
            /\ Done("hash")
            /\ hash = get_transaction_prefix_hash(m_transaction)
       /\ Done("hash") => Prefix(m_transaction') = Prefix(m_transaction)]_vars

\* a signed transaction of two inputs and two outputs with a nonce in extra
C10_Witness ==
    /\ Signed
    /\ Len(m_transaction.inputs) = 2
    /\ Len(m_transaction.outputs) = 2
    /\ m_transaction.extra[2] # <<>>
    /\ Len(m_transaction.signatures) = 2
    /\ m_transaction.signatures[1] # <<>>

\* the tx keys have been derived in the running or finished sign
KeysDerived == bstep > 0 /\ tx_keys # <<>>

\* the output keys have been installed in the running or finished sign
OutputsInstalled == bstep > 0 /\ Done("outputs")

\* C11: the tx secret r is a function of the finalized input list and the seed alone,
\* R is its public key and is what extra carries, and output i of the finalized
\* transaction has the stealth key derived from its address, r and its ordinal i; r
\* does not depend on outputs, payment id, extra nonce or unlock_time.
C11_DeterministicTxKeys ==
    /\ KeysDerived =>
        /\ tx_keys.secret_key = [inputs_hash |-> m_transaction.inputs,
                                 seed |-> tx_derivation_seed]
        /\ tx_keys.public_key = [of |-> tx_keys.secret_key]
        /\ m_transaction.extra[1] = <<tx_keys.public_key>>
    /\ OutputsInstalled =>
        /\ Len(m_transaction.outputs) = Len(m_output_descs)
        /\ \A i \in 1..Len(m_output_descs) :
             /\ m_transaction.outputs[i].amount = m_output_descs[i].amount
             /\ m_transaction.outputs[i].key =
                   crypto_derive_public_key(
                       generate_key_derivation(m_output_descs[i].addr.view_public_key,
                                               tx_keys.secret_key),
                       i - 1, m_output_descs[i].addr.spend_public_key)

\* a signed transaction with inputs, two outputs and a payment id or nonce in extra
C11_Witness ==
    /\ Signed
    /\ m_transaction.inputs # <<>>
    /\ Len(m_transaction.outputs) = 2
    /\ m_extra.nonce # <<>>

\* which outputs sit in which stack
HaveContents(have) ==
    [d \in DOMAIN have |-> [a \in DOMAIN have[d] |-> Range(have[d][a])]]
DustContents(dust) == [a \in DOMAIN dust |-> Range(dust[a])]

\* the stacks create_have_coins builds from the pool at the call's chain tip
StacksAtStart ==
    create_have_coins(m_unspents, 1, args.block_height, args.block_time,
                      args.confirmed_height)

\* the start of a loop iteration, or the filler loop right after its rollback
RolledBack ==
    \/ pc = "dust_single"
    \/ pc = "filler" /\ m_optimization_unspents = <<>>

\* C12: after unoptimize_amounts, optimization_unspents is empty, used_total and
\* inputs_count are what they were before the picks, and have_coins and dust_coins
\* hold, stack by stack, the outputs create_have_coins put there at selection start,
\* so every retry iteration starts from the same coin state.
C12_RollbackRestoresStacks ==
    RolledBack =>
        /\ m_optimization_unspents = <<>>
        /\ m_used_total = SumAmounts(m_used_unspents)
        /\ m_inputs_count = Len(m_used_unspents)
        /\ HaveContents(have_coins) = HaveContents(StacksAtStart.have)
        /\ DustContents(dust_coins) = DustContents(StacksAtStart.dust)
        /\ \A d \in DOMAIN have_coins : \A a \in DOMAIN have_coins[d] :
             Len(have_coins[d][a]) = Len(StacksAtStart.have[d][a])
        /\ \A a \in DOMAIN dust_coins : Len(dust_coins[a]) = Len(StacksAtStart.dust[a])

\* a retry at a raised fee over a pool with dust and non-dust coins
C12_Witness ==
    /\ pc = "dust_single"
    /\ fee > m_currency.minimum_fee
    /\ DOMAIN dust_coins # {}
    /\ DOMAIN have_coins # {}

\* the selector holds nothing of an earlier call
EmptySelection ==
    /\ m_used_unspents = <<>>
    /\ m_optimization_unspents = <<>>
    /\ m_ra_amounts = <<>>
    /\ m_used_total = 0
    /\ m_inputs_count = 0

\* C13: after any history of calls, reset leaves used_unspents, optimization_unspents
\* and ra_amounts empty and used_total = inputs_count = 0, the state of a freshly
\* constructed selector over the new pool, so the following call starts from the
\* stacks of that pool alone and an OK commits outputs of the new pool only.
C13_ResetRestoresEmptyState ==
    /\ pc = "idle" => EmptySelection
    /\ pc = "dust_single" /\ fee = m_currency.minimum_fee
            /\ optimizations = optimizations_of(args.optimization_level) =>
        /\ EmptySelection
        /\ have_coins = StacksAtStart.have
        /\ dust_coins = StacksAtStart.dust
    /\ Returned("") =>
        /\ Range(m_used_unspents) \subseteq Range(m_unspents)
        /\ m_used_total = SumAmounts(m_used_unspents)
        /\ m_inputs_count = Len(m_used_unspents)
        /\ Len(m_ra_amounts) = Len(m_used_unspents)

\* a call that failed on the pool given to reset after an earlier call had returned
\* OK with change
C13_Witness ==
    /\ Returned("NOT_ENOUGH_FUNDS")
    /\ change > 0
    /\ m_unspents \in ResetPools
    /\ EmptySelection

\* the pool is one spendable output of 1000, asked for 990 at fee_per_byte 0, no mixing
ExactFundsCall ==
    /\ Len(m_unspents) = 1
    /\ m_unspents[1].amount = 1000
    /\ Spendable(m_unspents[1])
    /\ args.total_amount = 990
    /\ args.fee_per_byte = 0
    /\ args.anonymity = 0

tx_size_of(n) == get_maximum_tx_size(n, args.total_outputs + 8, args.anonymity)

\* the pool is ManyCoins spendable outputs of amount 1
OnesCall == m_unspents = OnesPool /\ args.anonymity = 0

\* the statement as written: the pool of ones asked for its whole sum does not fit
C15_OnesPoolDoesNotFit ==
    /\ pc = "done" /\ OnesCall /\ args.total_amount = ManyCoins
            /\ args.effective_median_size < tx_size_of(ManyCoins)
        => status = "TRANSACTION_DOES_NOT_FIT_IN_BLOCK"
    /\ Returned("TRANSACTION_DOES_NOT_FIT_IN_BLOCK") =>
           tx_size_of(m_inputs_count) > args.effective_median_size

\* what holds of the status once the call has returned
C15_AtReturn ==
    /\ pc = "done" /\ OnesCall
            /\ args.total_amount + m_currency.minimum_fee <= ManyCoins
            /\ args.effective_median_size
                   < tx_size_of(args.total_amount + m_currency.minimum_fee)
        => status = "TRANSACTION_DOES_NOT_FIT_IN_BLOCK"
    /\ Returned("TRANSACTION_DOES_NOT_FIT_IN_BLOCK") =>
           /\ tx_size_of(m_inputs_count) > args.effective_median_size
           /\ optimizations = 0
    /\ Returned("") => tx_size_of(Len(m_used_unspents)) <= args.effective_median_size

\* C15: with a pool of ManyCoins outputs of amount 1 that covers total_amount plus
\* the minimum fee, and an effective_median_size smaller than the estimated size of
\* total_amount + minimum_fee inputs, select_optimal_outputs returns
\* TRANSACTION_DOES_NOT_FIT_IN_BLOCK; in general that status is returned exactly
\* when the estimated size of the selected inputs with total_outputs + 8 outputs
\* exceeds effective_median_size and the optimization budget is used up, and OK is
\* returned only for a selection that fits.
C15_DoesNotFitInBlock ==
    /\ [][pc = "evaluate" /\ optimizations = 0
              /\ tx_size_of(m_inputs_count) > args.effective_median_size
          => pc' = "done" /\ status' = "TRANSACTION_DOES_NOT_FIT_IN_BLOCK"]_vars
    /\ [](C15_AtReturn)

\* the pool of ones was asked for all it can pay and the selection did not fit
C15_Witness ==
    /\ Returned("TRANSACTION_DOES_NOT_FIT_IN_BLOCK")
    /\ OnesCall
    /\ args.total_amount + m_currency.minimum_fee = ManyCoins
    /\ m_inputs_count = ManyCoins

\* the pairs of leading digits optimize_amounts may pick at one digit
QualifyingPairs(stacks, am) ==
    {q \in (DOMAIN stacks) \X (DOMAIN stacks) :
        /\ (q[1] + q[2] + am) % 10 = 0
        /\ (Len(stacks[q[1]]) >= TWO_THRESHOLD \/ Len(stacks[q[2]]) >= TWO_THRESHOLD)}

PairHeight(stacks, q) == Len(stacks[q[1]]) + Len(stacks[q[2]])

\* one iteration of the digit loop of optimize_amounts at a digit that has stacks
OptimizeStep ==
    /\ pc \in {"optimize1", "optimize2"}
    /\ pc' = pc
    /\ digit' = digit + 1
    /\ digit \in DOMAIN have_coins

\* the outputs the step appended to optimization_unspents
NewlyOptimized ==
    SubSeq(m_optimization_unspents', Len(m_optimization_unspents) + 1,
           Len(m_optimization_unspents'))

\* the height of a stack after the step, 0 when it was erased
HeightAfter(d, a) ==
    IF d \in DOMAIN have_coins' /\ a \in DOMAIN have_coins'[d]
    THEN Len(have_coins'[d][a]) ELSE 0

\* the call of the digit-rounding example
PairCall == m_unspents = PairPool /\ args.total_amount = 990 /\ args.anonymity = 0

\* C16: with one coin of 3 and a tall stack of 7 at digit 0 and target 990,
\* optimize_amounts takes the top coin of stack 3 and of stack 7 at digit 0; in
\* general, at a digit where some pair of stacks has leading digits summing to
\* 10 - am (mod 10) and one of the two has at least TWO_THRESHOLD coins, it pops one
\* coin from each stack of such a pair of maximal combined height, and it picks no
\* pair when there is none.
C16_DigitRoundingPair ==
    [][OptimizeStep =>
        LET stacks == have_coins[digit]
            am == digit_need(inner_total_amount, m_used_total, Pow10(digit))
            Q == QualifyingPairs(stacks, am)
            new == NewlyOptimized
        IN /\ Q = {} => Len(new) <= 1
           /\ Q # {} =>
                 /\ Len(new) = 2
                 /\ LET q == <<LeadingOf(new[1].amount), LeadingOf(new[2].amount)>>
                    IN /\ q \in Q
                       /\ DigitOf(new[1].amount) = digit /\ DigitOf(new[2].amount) = digit
                       /\ \A r \in Q : PairHeight(stacks, r) <= PairHeight(stacks, q)
                       /\ new[1] = Last(stacks[q[1]])
                       /\ HeightAfter(digit, q[1]) =
                              Len(stacks[q[1]]) - (IF q[1] = q[2] THEN 2 ELSE 1)
                       /\ HeightAfter(digit, q[2]) =
                              Len(stacks[q[2]]) - (IF q[1] = q[2] THEN 2 ELSE 1)
           /\ PairCall /\ digit = 0 =>
                 /\ Len(new) = 2
                 /\ new[1].amount = 3 /\ new[2].amount = 7
                 /\ HeightAfter(0, 3) = 0
                 /\ HeightAfter(0, 7) = Len(stacks[7]) - 1]_vars

\* the example call has just taken the pair (3, 7) at digit 0
C16_Witness ==
    /\ PairCall
    /\ pc = "optimize1" /\ digit = 1
    /\ Len(m_optimization_unspents) >= 2
    /\ Last(Front(m_optimization_unspents)).amount = 3
    /\ Last(m_optimization_unspents).amount = 7
    /\ 3 \notin DOMAIN have_coins[0]

\* an iteration of the loop of select_optimal_outputs that does not return
LoopRetry == pc = "evaluate" /\ pc' = "dust_single"

\* C17: every iteration of the selection loop that does not return either raises
\* fee to a greater multiple of default_dust_threshold, the budget unchanged, or
\* lowers the optimization budget to half, or to 0 when the half is below 10, the
\* fee unchanged; and every call returns OK, NOT_ENOUGH_FUNDS or
\* TRANSACTION_DOES_NOT_FIT_IN_BLOCK.
C17_SelectionTerminates ==
    /\ [][LoopRetry =>
            \/ /\ fee' > fee
               /\ fee' % m_currency.default_dust_threshold = 0
               /\ optimizations' = optimizations
            \/ /\ fee' = fee
               /\ optimizations' < optimizations
               /\ optimizations' = IF optimizations \div 2 < 10 THEN 0
                                   ELSE optimizations \div 2]_vars
    /\ <>(pc = "done" /\ status \in {"", "NOT_ENOUGH_FUNDS",
                                     "TRANSACTION_DOES_NOT_FIT_IN_BLOCK"})

\* a call returned OK after a fee retry and a size retry
C17_Witness ==
    /\ Returned("")
    /\ fee > m_currency.minimum_fee
    /\ optimizations < optimizations_of(args.optimization_level)

\* the ring member the description of an input marks as the real output
RealMember(desc) == desc.outputs[desc.real_output_index + 1]

\* C18: the transaction returned by sign has one signature vector per input; vector i
\* has one entry per member of input i's ring and is made from the prefix hash, the
\* key image of inputs[i], and the ring, ephemeral secret and real_output_index of
\* description i, which is the description whose add_input call made inputs[i]: its
\* ring gives inputs[i].output_indexes and amount, and its member at
\* real_output_index is the wallet's real output, whose key image is inputs[i]'s; the
\* ring is sorted by non-decreasing global_index.
C18_SignaturesPairedWithInputs ==
    Signed =>
        /\ Len(m_transaction.signatures) = Len(m_transaction.inputs)
        /\ Len(m_input_descs) = Len(m_transaction.inputs)
        /\ \A i \in 1..Len(m_transaction.inputs) :
             LET desc == m_input_descs[i]
                 input == m_transaction.inputs[i]
                 sig == m_transaction.signatures[i]
                 real == RealMember(desc)
             IN /\ Len(sig) = Len(desc.outputs)
                /\ Len(sig) = Len(input.output_indexes)
                /\ \A k \in 1..Len(sig) :
                     /\ sig[k].prefix_hash = get_transaction_prefix_hash(m_transaction)
                     /\ sig[k].key_image = input.key_image
                     /\ sig[k].ring = [j \in 1..Len(desc.outputs) |->
                                          desc.outputs[j].public_key]
                     /\ sig[k].secret_key = desc.eph_keys.secret_key
                     /\ sig[k].real_output_index = desc.real_output_index
                /\ input.output_indexes =
                       absolute_output_offsets_to_relative(
                           [j \in 1..Len(desc.outputs) |-> desc.outputs[j].global_index])
                /\ desc.real_output_index < Len(desc.outputs)
                /\ real \in BuilderReals
                /\ input.amount = real.amount
                /\ input.key_image = real.key_image
                /\ desc.eph_keys = eph_keys_of(AccountKeysOf(real.address),
                                               real.transaction_public_key,
                                               real.index_in_transaction)
                /\ \A j \in 1..Len(desc.outputs) - 1 :
                     desc.outputs[j].global_index <= desc.outputs[j + 1].global_index

\* a signed transaction of two inputs of different amounts, one with a ring of three
\* whose real output is not the first member
C18_Witness ==
    /\ Signed
    /\ Len(m_transaction.inputs) = 2
    /\ m_transaction.inputs[1].amount # m_transaction.inputs[2].amount
    /\ \E i \in 1..2 :
          /\ Len(m_transaction.signatures[i]) = 3
          /\ m_input_descs[i].real_output_index > 0

\* the outputs the selector holds as selected, committed ones first
SelectedOutputs == m_used_unspents \o m_optimization_unspents

\* C19: at every point of a call on a fresh or reset selector, used_total is the sum
\* of the amounts of the outputs in used_unspents and optimization_unspents together,
\* and inputs_count is their number.
C19_TotalsMatchSelection ==
    /\ m_used_total = SumAmounts(SelectedOutputs)
    /\ m_inputs_count = Len(SelectedOutputs)

\* a selection of at least two outputs committed after a fee retry rolled picks back
C19_Witness ==
    /\ Returned("")
    /\ Len(m_used_unspents) >= 2
    /\ fee > m_currency.minimum_fee
    /\ m_used_total > 0

\* a sequence that holds no output twice
NoRepeat(seq) == Cardinality(Range(seq)) = Len(seq)

\* the pool outputs create_have_coins accepts at the call's chain tip
EligibleOutputs ==
    {un \in Range(m_unspents) :
        Eligible(un, args.block_height, args.block_time, args.confirmed_height)}

\* C20: from the classification of the pool to the return of the call, every eligible
\* pool output is in exactly one of the have stacks, the dust stacks,
\* optimization_unspents and used_unspents, and is there once; so the used_unspents
\* committed with OK hold each pool output at most once.
C20_NoOutputSelectedTwice ==
    pc # "idle" =>
        /\ HaveOutputs \cup DustOutputs \cup Range(m_optimization_unspents)
               \cup Range(m_used_unspents) = EligibleOutputs
        /\ HaveOutputs \cap DustOutputs = {}
        /\ (HaveOutputs \cup DustOutputs) \cap Range(SelectedOutputs) = {}
        /\ NoRepeat(SelectedOutputs)
        /\ \A d \in DOMAIN have_coins : \A a \in DOMAIN have_coins[d] :
             /\ NoRepeat(have_coins[d][a])
             /\ \A un \in Range(have_coins[d][a]) :
                  DigitOf(un.amount) = d /\ LeadingOf(un.amount) = a
        /\ \A a \in DOMAIN dust_coins :
             /\ NoRepeat(dust_coins[a])
             /\ \A un \in Range(dust_coins[a]) : un.amount = a
        /\ Returned("") => NoRepeat(m_used_unspents)
                           /\ Range(m_used_unspents) \subseteq Range(m_unspents)

\* OK was returned with two outputs committed while other outputs stayed on stacks
C20_Witness ==
    /\ Returned("")
    /\ Len(m_used_unspents) >= 2
    /\ HaveOutputs \cup DustOutputs # {}

\* the fee a committed selection pays: what is neither sent nor returned as change
PaidFee == m_used_total - args.total_amount - change

\* C21: whenever select_optimal_outputs returns OK, change is a non-negative multiple
\* of default_dust_threshold, and the fee paid, used_total - total_amount - change, is
\* at least minimum_fee and at least fee_per_byte times the estimated size of the
\* committed selection (inputs_count inputs, total_outputs + 8 outputs, the anonymity).
C21_PaidFeeCoversSize ==
    Returned("") =>
        /\ change >= 0
        /\ change % m_currency.default_dust_threshold = 0
        /\ PaidFee >= m_currency.minimum_fee
        /\ PaidFee >= args.fee_per_byte * tx_size_of(m_inputs_count)
        /\ m_inputs_count = Len(m_used_unspents)

\* OK with positive change, a size fee above the minimum fee, and a paid fee that
\* includes a dust remainder
C21_Witness ==
    /\ Returned("")
    /\ change > 0
    /\ args.fee_per_byte * tx_size_of(m_inputs_count) > m_currency.minimum_fee
    /\ PaidFee > fee

\* the call returned one of the two selection failures
SelectionFailed ==
    pc = "done" /\ status \in {"NOT_ENOUGH_FUNDS", "TRANSACTION_DOES_NOT_FIT_IN_BLOCK"}

\* C22: when select_optimal_outputs on a fresh selector returns NOT_ENOUGH_FUNDS or
\* TRANSACTION_DOES_NOT_FIT_IN_BLOCK, used_unspents and ra_amounts are still empty,
\* and an add_mixed_inputs that follows gives the builder no input and throws nothing.
C22_FailureCommitsNothing ==
    SelectionFailed =>
        /\ m_used_unspents = <<>>
        /\ m_ra_amounts = <<>>
        /\ mpc = "mixed" =>
             /\ m_input_descs = <<>>
             /\ m_inputs_amount = 0
             /\ error = ""
             /\ ra_response = ra_given

\* add_mixed_inputs has run after a selection with provisional picks did not fit
C22_Witness ==
    /\ Returned("TRANSACTION_DOES_NOT_FIT_IN_BLOCK")
    /\ mpc = "mixed"
    /\ m_optimization_unspents # <<>>
    /\ args.anonymity > 0

====
